---- MODULE Spec2Model ----
(***************************************************************************)
(* Psychological-levels breakout strategy (royceanton/psy-level).          *)
(*                                                                         *)
(* Two parts of the program are modelled:                                  *)
(*   - PsychologicalLevels.calc_psy_levels (src/indicator/psy_levels.py),  *)
(*     the band calculator, together with the hourly resampling and the    *)
(*     reindex/ffill of PsyLevelsStrategy.init (src/strategy.py);          *)
(*   - PsyLevelsStrategy.next (the second, effective definition) and the   *)
(*     methods it calls, driven bar by bar by the backtesting engine.      *)
(*                                                                         *)
(* Time is counted in bars of the base timeframe from Monday 00:00 UTC of  *)
(* the ISO week FirstWeek (2024-01-01, the configured start date).  An     *)
(* hourly timestamp is counted in hours from the same origin.              *)
(*                                                                         *)
(* Prices are integers.  A level produced by multiplying a price with one  *)
(* of the configured fractions is kept exactly, as an integer number of    *)
(* 1/Scale price units (Python uses binary floating point; the model uses  *)
(* exact arithmetic).                                                      *)
(***************************************************************************)
EXTENDS Integers, Sequences, FiniteSets, TLC

VARIABLES
    pc,                  \* position of the run: "init", "init2", "broker", "next",
                         \* "done", "error"
    df,                  \* self.data.df: the base-timeframe bars, <<[t, High, Low]>>
    df_levels,           \* init's local df_levels (<<>> outside init)
    psy_hi,              \* self.psy_hi: one value per bar of df
    psy_lo,              \* self.psy_lo
    i,                   \* number of bars the engine has revealed (len(self.data))
    Close,               \* self.data.Close[-1] of the bar being processed
    current_week,        \* self.current_week
    trade_blocked_until, \* self.trade_blocked_until
    pending_sl,          \* self.pending_sl
    pending_tp,          \* self.pending_tp
    trade,               \* the engine's open trade (self.position / self.trades[-1])
    order,               \* the engine's queued market entry order
    close_order,         \* the engine's queued position.close() order
    did,                 \* what the last call of next() did (observation)
    rollovers,           \* timestamps of the bars on which a rollover fired (observation)
    period_log           \* since the last rollover: entries issued, positions
                         \* closed by their stop or target (observation)

vars == <<pc, df, df_levels, psy_hi, psy_lo, i, Close, current_week,
          trade_blocked_until, pending_sl, pending_tp, trade, order,
          close_order, did, rollovers, period_log>>

----------------------------------------------------------------------------
(* Bounds of the model *)

\* Bars of the base timeframe per hour (the configured '5m' has 12).
BarsPerHour == 2

\* Number of weekly anchors (Saturday 22:00) the generated data can span.
NumWeeks == 2

\* The largest count the period log keeps.
MaxLogged == 2

----------------------------------------------------------------------------
(* Values *)

\* np.nan / pd.isna: "no value" of a float column.
NaN == -1

\* Python's None.
None == -2

\* Levels are kept in units of 1/Scale of a price unit.
Scale == 10000

\* STRATEGY_CONFIG, as integer multiples of 1/Scale.
entry_offset == 1
take_profit == 100
risk_per_trade == 100
sl_offset == 1
trailing_offset == 50

\* ISO week number of the time origin (2024-01-01 is the Monday of week 1).
FirstWeek == 1

HoursPerDay == 24
DaysPerWeek == 7
HoursPerWeek == HoursPerDay * DaysPerWeek

\* The crypto session start: weekday 5 (Saturday), hour 22, minute 0.
AnchorWeekday == 5
AnchorHour == 22

\* Hours after the session start that enter the band, and hours of cooldown.
HoursAfter == 6
CooldownHours == 6

----------------------------------------------------------------------------
(* Calendar: pandas Timestamp accessors, on hour counts and on bar counts *)

HourOf(t) == t \div BarsPerHour

weekday_h(h) == (h \div HoursPerDay) % DaysPerWeek
hour_h(h) == h % HoursPerDay

weekday(t) == weekday_h(HourOf(t))
hour(t) == hour_h(HourOf(t))
\* minute == 0 exactly for the first bar of an hour
minute_is_zero(t) == t % BarsPerHour = 0

isocalendar_week(t) == FirstWeek + (HourOf(t) \div HoursPerWeek)

\* The hour count of the k-th anchor (k = 0, 1, ...).
AnchorAt(k) == k * HoursPerWeek + AnchorWeekday * HoursPerDay + AnchorHour

----------------------------------------------------------------------------
(* Float comparisons with NaN, pandas reductions, Python's max and min.    *)
(*                                                                         *)
(* Throughout, CHOOSE r \in { F(x) : x \in {e} } : TRUE is F(e) with e      *)
(* evaluated once (a local variable of the code).                          *)

IsNaN(x) == x = NaN

\* a > b and a < b on floats: False as soon as one side is NaN
FloatGT(a, b) == ~IsNaN(a) /\ ~IsNaN(b) /\ a > b
FloatLT(a, b) == ~IsNaN(a) /\ ~IsNaN(b) /\ a < b

SetMax(S) == CHOOSE x \in S : \A y \in S : x >= y
SetMin(S) == CHOOSE x \in S : \A y \in S : x <= y

\* Series.max() / Series.min(): NaN entries are skipped; NaN when nothing is left
SeriesMax(S) == IF S \ {NaN} = {} THEN NaN ELSE SetMax(S \ {NaN})
SeriesMin(S) == IF S \ {NaN} = {} THEN NaN ELSE SetMin(S \ {NaN})

\* Python's max(list): keeps the first element until a later one compares greater
RECURSIVE PyMaxFrom(_, _, _)
PyMaxFrom(s, k, m) ==
    IF k > Len(s) THEN m
    ELSE PyMaxFrom(s, k + 1, IF FloatGT(s[k], m) THEN s[k] ELSE m)

PyMax(s) == PyMaxFrom(s, 2, s[1])

RECURSIVE PyMinFrom(_, _, _)
PyMinFrom(s, k, m) ==
    IF k > Len(s) THEN m
    ELSE PyMinFrom(s, k + 1, IF FloatLT(s[k], m) THEN s[k] ELSE m)

PyMin(s) == PyMinFrom(s, 2, s[1])

\* A finite set of integers as the ascending sequence (Index.sort_values()).
RECURSIVE SortedSeq(_)
SortedSeq(S) ==
    IF S = {} THEN <<>>
    ELSE LET m == SetMin(S) IN <<m>> \o SortedSeq(S \ {m})

----------------------------------------------------------------------------
(* PsyLevelsStrategy.resample_to_hourly: df.resample('1h').agg(High: max,   *)
(* Low: min).  A frame is the sequence of its rows in index order; t is the *)
(* index entry of a row.  The hourly frame has one row for every hour from *)
(* the hour of the first bar to the hour of the last bar; an hour without  *)
(* bars is a row of NaN.                                                   *)

hourly_row(h, hs, ls) ==
    [t |-> h,
     High |-> IF hs = {} THEN NaN ELSE SeriesMax(hs),
     Low  |-> IF ls = {} THEN NaN ELSE SeriesMin(ls)]

resample_to_hourly(bars) ==
    LET h0 == HourOf(bars[1].t)
        h1 == HourOf(bars[Len(bars)].t)
    IN  [n \in 1..(h1 - h0 + 1) |->
            hourly_row(h0 + n - 1,
                {bars[k].High : k \in {j \in 1..Len(bars) : HourOf(bars[j].t) = h0 + n - 1}},
                {bars[k].Low : k \in {j \in 1..Len(bars) : HourOf(bars[j].t) = h0 + n - 1}})]

----------------------------------------------------------------------------
(* PsychologicalLevels.calc_psy_levels, psy_type = 'crypto', on the hourly *)
(* frame hdf.                                                              *)

\* session_starts: the index entries at Saturday 22:00, ascending
session_starts(hdf) ==
    SortedSeq({hdf[n].t : n \in {m \in 1..Len(hdf) :
                 weekday_h(hdf[m].t) = AnchorWeekday /\ hour_h(hdf[m].t) = AnchorHour}})

\* end_time of the k-th session: the next session start, or df.index[-1]
end_time(hdf, starts, k) ==
    IF k < Len(starts) THEN starts[k + 1] ELSE hdf[Len(hdf)].t

\* the rows selected by (df.index >= lo) & (df.index < hi)
Mask(hdf, lo, hi) == {n \in 1..Len(hdf) : hdf[n].t >= lo /\ hdf[n].t < hi}

\* highs.append(data['High'].max()) / lows.append(data['Low'].min()) when
\* mask.any(); nothing is appended for a mask that selects no row
append_max(hdf, mask) ==
    IF mask = {} THEN <<>> ELSE <<SeriesMax({hdf[n].High : n \in mask})>>
append_min(hdf, mask) ==
    IF mask = {} THEN <<>> ELSE <<SeriesMin({hdf[n].Low : n \in mask})>>

\* 2a) the hour before the session start: [start - 1h, start)
init_mask(hdf, start) == Mask(hdf, start - 1, start)

\* 2b) range(6): the hours [start + h, start + h + 1h), h = 0 .. 5
hour_mask(hdf, start, h) == Mask(hdf, start + h, start + h + 1)

RECURSIVE highs_after(_, _, _)
highs_after(hdf, start, h) ==
    IF h >= HoursAfter THEN <<>>
    ELSE append_max(hdf, hour_mask(hdf, start, h)) \o highs_after(hdf, start, h + 1)

RECURSIVE lows_after(_, _, _)
lows_after(hdf, start, h) ==
    IF h >= HoursAfter THEN <<>>
    ELSE append_min(hdf, hour_mask(hdf, start, h)) \o lows_after(hdf, start, h + 1)

\* the lists highs and lows after steps 2a and 2b
highs(hdf, start) ==
    append_max(hdf, init_mask(hdf, start)) \o highs_after(hdf, start, 0)
lows(hdf, start) ==
    append_min(hdf, init_mask(hdf, start)) \o lows_after(hdf, start, 0)

\* psy_hi = max(highs), psy_lo = min(lows)
band_hi(hs) == PyMax(hs)
band_lo(ls) == PyMin(ls)

\* week_mask opened two hours before the session start, so that a Period's
\* band is shown on bars that precede its anchor: the variant C21 must exclude
week_mask_early(hdf, start, end) == Mask(hdf, start - 2, end)

\* week_mask: (df.index >= start_time) & (df.index < end_time)
week_mask(hdf, start, end) == Mask(hdf, start, end)

\* df.loc[week_mask, 'psy_hi'] = psy_hi; df.loc[week_mask, 'psy_lo'] = psy_lo
assign(frame, wm, hi, lo) ==
    [n \in 1..Len(frame) |->
        IF n \in wm
        THEN [t |-> frame[n].t, High |-> frame[n].High, Low |-> frame[n].Low,
              psy_hi |-> hi, psy_lo |-> lo]
        ELSE frame[n]]

\* step 3: "if highs and lows" (both lists are non-empty), set the band
\* set_levels with the two columns exchanged: the variant C4 must exclude
set_levels_swapped(frame, wm, hs, ls) ==
    IF hs # <<>> /\ ls # <<>>
    THEN assign(frame, wm, band_lo(ls), band_hi(hs))
    ELSE frame

set_levels(frame, wm, hs, ls) ==
    IF hs # <<>> /\ ls # <<>>
    THEN assign(frame, wm, band_hi(hs), band_lo(ls))
    ELSE frame

\* One pass of the loop body for the k-th session start, on the frame so far.
\* (The masks read only the index and the High and Low columns, which no pass
\* changes.)
session_pass(frame, starts, k) ==
    CHOOSE r \in { set_levels(frame, wm, hs, ls) :
                      wm \in {week_mask(frame, starts[k], end_time(frame, starts, k))},
                      hs \in {highs(frame, starts[k])},
                      ls \in {lows(frame, starts[k])} } : TRUE

RECURSIVE session_loop(_, _, _)
session_loop(frame, starts, k) ==
    IF k > Len(starts) THEN frame
    ELSE CHOOSE r \in { session_loop(f, starts, k + 1) :
                           f \in {session_pass(frame, starts, k)} } : TRUE

\* df['psy_hi'] = np.nan; df['psy_lo'] = np.nan
with_nan_columns(hdf) ==
    [n \in 1..Len(hdf) |->
        [t |-> hdf[n].t, High |-> hdf[n].High, Low |-> hdf[n].Low,
         psy_hi |-> NaN, psy_lo |-> NaN]]

calc_psy_levels(hdf) ==
    CHOOSE r \in { session_loop(frame, starts, 1) :
                      frame \in {with_nan_columns(hdf)},
                      starts \in {session_starts(hdf)} } : TRUE

----------------------------------------------------------------------------
(* PsyLevelsStrategy.init: the band columns brought back to the bars of the *)
(* base timeframe, Series.reindex(self.data.df.index).ffill().             *)

\* reindex: a bar takes the hourly value only when its timestamp is itself an
\* entry of the hourly index; every other bar gets NaN.
reindex(levels, col, bars) ==
    [k \in 1..Len(bars) |->
        LET n == HourOf(bars[k].t) - levels[1].t + 1
        IN  IF minute_is_zero(bars[k].t) /\ n \in 1..Len(levels)
            THEN levels[n][col]
            ELSE NaN]

\* ffill: a NaN is replaced by the last value before it that is not NaN.
\* ffill_range fills s[a..b], carry being the last value before a (the range
\* is halved, which keeps the evaluation shallow).
RECURSIVE ffill_range(_, _, _, _)
ffill_range(s, a, b, carry) ==
    IF a > b THEN <<>>
    ELSE IF a = b THEN <<IF IsNaN(s[a]) THEN carry ELSE s[a]>>
    ELSE CHOOSE r \in { left \o ffill_range(s, (a + b) \div 2 + 1, b, left[Len(left)]) :
                          left \in {ffill_range(s, a, (a + b) \div 2, carry)} } : TRUE

ffill(s) == ffill_range(s, 1, Len(s), NaN)

\* the indicator series self.psy_hi / self.psy_lo
indicator(levels, col, bars) ==
    CHOOSE r \in { ffill(s) : s \in {reindex(levels, col, bars)} } : TRUE

----------------------------------------------------------------------------
(* Input data.  A series is the bars at every bar time from first to last,  *)
(* without the bar times in [gFrom, gTo) and without the bars of the hour  *)
(* hole.  A bar in one of the hours [anchor - 1h, anchor + 6h) has the     *)
(* range BaseLow..BaseHigh, or SpikeLow..SpikeHigh in the hour spike, or   *)
(* DipLow..DipHigh in the hour dip; every other bar has the wide range     *)
(* WideLow..WideHigh.  High >= Low on every bar.                           *)

BaseHigh == 100
BaseLow == 99
SpikeHigh == 102
SpikeLow == 101
DipHigh == 98
DipLow == 97
WideHigh == 103
WideLow == 96

InWindow(h) ==
    \E k \in 0..NumWeeks : h >= AnchorAt(k) - 1 /\ h < AnchorAt(k) + HoursAfter

\* "no such hour" for hole, spike and dip; "no gap" is gFrom = gTo
NoHour == None

Range(a, b) == [k \in 1..(b - a + 1) |-> a + k - 1]

Min2(a, b) == IF a <= b THEN a ELSE b
Max2(a, b) == IF a >= b THEN a ELSE b

\* the bar times from first to last that are not in [gFrom, gTo), ascending
BarTimes(first, last, gFrom, gTo) ==
    IF gFrom < gTo
    THEN Range(first, Min2(last, gFrom - 1)) \o Range(Max2(first, gTo), last)
    ELSE Range(first, last)

BarOf(t, spike, dip) ==
    [t    |-> t,
     High |-> IF ~InWindow(HourOf(t)) THEN WideHigh
              ELSE IF HourOf(t) = spike THEN SpikeHigh
              ELSE IF HourOf(t) = dip THEN DipHigh ELSE BaseHigh,
     Low  |-> IF ~InWindow(HourOf(t)) THEN WideLow
              ELSE IF HourOf(t) = dip THEN DipLow
              ELSE IF HourOf(t) = spike THEN SpikeLow ELSE BaseLow]

BarsOf(times, hole, spike, dip) ==
    LET keep(b) == HourOf(b.t) # hole
    IN  SelectSeq([k \in 1..Len(times) |-> BarOf(times[k], spike, dip)], keep)

MakeBars(first, last, gFrom, gTo, hole, spike, dip) ==
    CHOOSE r \in { BarsOf(times, hole, spike, dip) :
                     times \in {BarTimes(first, last, gFrom, gTo)} } : TRUE

A0 == AnchorAt(0)
ALast == AnchorAt(NumWeeks - 1)

\* first bar of the hour h
BarAt(h) == h * BarsPerHour

\* The gap between the data around the first anchor and the data of the last
\* week: none, up to two hours before the last anchor, or up to seven hours
\* after it (the whole defining window of the last anchor is then missing).
Gaps ==
    { <<0, 0>>,
      <<BarAt(A0 + 9), BarAt(ALast - 2)>>,
      <<BarAt(A0 + 9), BarAt(ALast + 7)>> }

\* Inputs of the band calculator
BandFirsts == {BarAt(A0 - 2), BarAt(A0), BarAt(A0) + 1}
BandLasts == {BarAt(A0), BarAt(A0 + 3), BarAt(A0 + 8),
              BarAt(ALast), BarAt(ALast + 8)}
BandGaps == Gaps \ {<<0, 0>>}
BandHoles == {NoHour, A0 - 1, A0 + 2, ALast - 1}
BandSpikes == {NoHour, A0 - 1, A0, A0 + 5, ALast + 5}
BandDips == {NoHour, A0 - 1, A0 + 2, A0 + 5, ALast}

----------------------------------------------------------------------------
(* State of the engine and of the strategy before init() has run *)

NoTrade == [dir |-> "flat", entry_price |-> None, sl |-> None, tp |-> None]
NoOrder == [dir |-> "none", size_num |-> 0, size_den |-> 1]
\* What one call of next() did: the entry it submitted ("none", "buy", "sell")
\* with its size (size_num / size_den) and the unrounded quotient
\* risk_cap / size_diff (q_num / q_den); whether the rollover fired, a pending
\* stop/target was attached, the target was trailed, the bar was skipped for
\* an undefined band or blocked by the cooldown.
DidNothing == [entry |-> "none", size_num |-> 0, size_den |-> 1,
               q_num |-> 0, q_den |-> 1, rollover |-> FALSE,
               attached |-> FALSE, trailed |-> FALSE, blocked |-> FALSE,
               skipped |-> FALSE]

\* Nothing logged; the log counts up to MaxLogged.
NoLog == [entries |-> 0, closes |-> 0]
logged(n) == IF n < MaxLogged THEN n + 1 ELSE n

Fresh(bars) ==
    /\ pc = "init"
    /\ df = bars
    /\ df_levels = <<>>
    /\ psy_hi = <<>>
    /\ psy_lo = <<>>
    /\ i = 0
    /\ Close = None
    /\ current_week = None
    /\ trade_blocked_until = None
    /\ pending_sl = None
    /\ pending_tp = None
    /\ trade = NoTrade
    /\ order = NoOrder
    /\ close_order = FALSE
    /\ did = DidNothing
    /\ rollovers = <<>>
    /\ period_log = NoLog

\* PsyLevelsStrategy.init, first half: the hourly frame and its band columns
init_levels ==
    /\ pc = "init"
    /\ \E hourly_data \in {resample_to_hourly(df)} :
           df_levels' = calc_psy_levels(hourly_data)
    /\ pc' = "init2"
    /\ UNCHANGED <<df, psy_hi, psy_lo, i, Close, current_week,
                   trade_blocked_until, pending_sl, pending_tp, trade, order,
                   close_order, did, rollovers, period_log>>

\* PsyLevelsStrategy.init, second half: the indicators and the state variables
init_indicators ==
    /\ pc = "init2"
    /\ psy_hi' = indicator(df_levels, "psy_hi", df)
    /\ psy_lo' = indicator(df_levels, "psy_lo", df)
    /\ df_levels' = <<>>
    /\ current_week' = None
    /\ trade_blocked_until' = None
    /\ pending_sl' = None
    /\ pending_tp' = None
    /\ pc' = "broker"
    /\ UNCHANGED <<df, i, Close, trade, order, close_order, did, rollovers, period_log>>

----------------------------------------------------------------------------
(* PsyLevelsStrategy: the methods next() calls.  A level (stop, target,    *)
(* breakout) is an integer number of 1/Scale price units; a price p is the *)
(* level p * Scale.                                                        *)

\* 1e-8, as the inverse
EpsilonInverse == 100000000

\* Close and Open prices of a bar, and the account equity the engine reports
Closes == {0, 97, 98, 100, 101, 102}
Opens == {100, 101}
Equities == {150, 1000, 1000000}

\* should_update_weekly_levels: Saturday 22:00, or no week recorded yet, and
\* the recorded week differs from the bar's ISO week
should_update_weekly_levels(current_time, cw) ==
    LET this_week == isocalendar_week(current_time)
        is_saturday_22 == /\ weekday(current_time) = AnchorWeekday
                          /\ hour(current_time) = AnchorHour
                          /\ minute_is_zero(current_time)
    IN  (is_saturday_22 \/ cw = None) /\ cw # this_week

\* set_sl_tp_for_new_position without the reset of the pending values: the
\* variant C17 must exclude
set_sl_tp_keep_pending(tr, psl, ptp) ==
    IF tr.dir # "flat" /\ (psl # None \/ ptp # None)
    THEN [trade |-> [tr EXCEPT
                       !.sl = IF @ = None /\ psl # None THEN psl ELSE @,
                       !.tp = IF @ = None /\ ptp # None THEN ptp ELSE @],
          pending_sl |-> psl, pending_tp |-> ptp, attached |-> TRUE]
    ELSE [trade |-> tr, pending_sl |-> psl, pending_tp |-> ptp,
          attached |-> FALSE]

\* set_sl_tp_for_new_position attaching the stop only: the variant C22 must
\* exclude
set_sl_only(tr, psl, ptp) ==
    IF tr.dir # "flat" /\ (psl # None \/ ptp # None)
    THEN [trade |-> [tr EXCEPT
                       !.sl = IF @ = None /\ psl # None THEN psl ELSE @],
          pending_sl |-> None, pending_tp |-> None, attached |-> TRUE]
    ELSE [trade |-> tr, pending_sl |-> psl, pending_tp |-> ptp,
          attached |-> FALSE]

\* set_sl_tp_for_new_position
set_sl_tp_for_new_position(tr, psl, ptp) ==
    IF tr.dir # "flat" /\ (psl # None \/ ptp # None)
    THEN [trade |-> [tr EXCEPT
                       !.sl = IF @ = None /\ psl # None THEN psl ELSE @,
                       !.tp = IF @ = None /\ ptp # None THEN ptp ELSE @],
          pending_sl |-> None, pending_tp |-> None, attached |-> TRUE]
    ELSE [trade |-> tr, pending_sl |-> psl, pending_tp |-> ptp,
          attached |-> FALSE]

\* "if new_tp > t.tp: t.tp = new_tp" (long), "if new_tp < t.tp" (short)
\* trail_long without the comparison: the variant C3 must exclude
trail_long_unguarded(tp, new_tp) == new_tp

trail_long(tp, new_tp) == IF new_tp > tp THEN new_tp ELSE tp
trail_short(tp, new_tp) == IF new_tp < tp THEN new_tp ELSE tp

\* update_trailing_tp.  Comparing new_tp with a target that is None raises
\* TypeError.
update_trailing_tp(tr, price) ==
    IF tr.dir = "long"
    THEN IF price * Scale >= tr.entry_price * (Scale + take_profit)
         THEN IF tr.tp = None
              THEN [trade |-> tr, error |-> TRUE, trailed |-> FALSE]
              ELSE [trade |-> [tr EXCEPT !.tp =
                                 trail_long(@, price * (Scale + trailing_offset))],
                    error |-> FALSE,
                    trailed |-> price * (Scale + trailing_offset) > tr.tp]
         ELSE [trade |-> tr, error |-> FALSE, trailed |-> FALSE]
    ELSE IF price * Scale <= tr.entry_price * (Scale - take_profit)
         THEN IF tr.tp = None
              THEN [trade |-> tr, error |-> TRUE, trailed |-> FALSE]
              ELSE [trade |-> [tr EXCEPT !.tp =
                                 trail_short(@, price * (Scale - trailing_offset))],
                    error |-> FALSE,
                    trailed |-> price * (Scale - trailing_offset) < tr.tp]
         ELSE [trade |-> tr, error |-> FALSE, trailed |-> FALSE]

\* check_breakouts: the direction of the breakout, if any
\* check_breakouts comparing with the band itself, without entry_offset: the
\* variant C11 must exclude
check_breakouts_no_offset(price, hi, lo) ==
    IF price * Scale >= hi * Scale THEN "long"
    ELSE IF price * Scale <= lo * Scale THEN "short"
    ELSE "none"

\* check_breakouts without the sell side: the variant C12 must exclude
check_breakouts_long_only(price, hi, lo) ==
    IF price * Scale >= hi * (Scale + entry_offset) THEN "long"
    ELSE "none"

check_breakouts(price, hi, lo) ==
    IF price * Scale >= hi * (Scale + entry_offset) THEN "long"
    ELSE IF price * Scale <= lo * (Scale - entry_offset) THEN "short"
    ELSE "none"

\* int(round(size)): Python rounds to the nearest integer, a tie to the even one
\* round_size truncating instead of rounding: the variant C10 must exclude
round_size_floor(n, d) == n \div d

round_size(n, d) ==
    LET f == n \div d
        twice_rest == 2 * (n - f * d)
    IN  IF twice_rest < d THEN f
        ELSE IF twice_rest > d THEN f + 1
        ELSE IF f % 2 = 0 THEN f ELSE f + 1

\* the stop of an entry: psy_lo * (1 - sl_offset) or psy_hi * (1 + sl_offset)
\* stop_level without sl_offset: the variant C15 must exclude
stop_level_no_offset(direction, hi, lo) ==
    IF direction = "long" THEN lo * Scale ELSE hi * Scale

stop_level(direction, hi, lo) ==
    IF direction = "long" THEN lo * (Scale - sl_offset)
    ELSE hi * (Scale + sl_offset)

\* desired_tp = fill_price * (1 +- take_profit)
desired_tp(direction, fill_price) ==
    IF direction = "long" THEN fill_price * (Scale + take_profit)
    ELSE fill_price * (Scale - take_profit)

\* size = risk_cap / size_diff = (equity * risk_per_trade) / |fill_price - sl|,
\* as the fraction num / den; rounded when it is >= 1
order_size(num, den) ==
    IF num >= den THEN [num |-> round_size(num, den), den |-> 1]
    ELSE [num |-> num, den |-> den]

\* place_breakout_trade raising a risk distance below the epsilon to one level
\* unit instead of returning: the variant C18 must exclude
place_breakout_trade_clamped(direction, fill_price, hi, lo, eq) ==
    LET sl == stop_level(direction, hi, lo)
        size_diff == IF direction = "long" THEN fill_price * Scale - sl
                     ELSE sl - fill_price * Scale
        abs_diff == IF size_diff < 0 THEN 0 - size_diff ELSE size_diff
        clamped == IF abs_diff < 1 THEN 1 ELSE abs_diff
    IN  [placed |-> TRUE,
         size |-> order_size(eq * risk_per_trade, clamped),
         q_num |-> eq * risk_per_trade, q_den |-> clamped,
         sl |-> sl, tp |-> desired_tp(direction, fill_price)]

\* place_breakout_trade (fill_price is the Close of the bar)
place_breakout_trade(direction, fill_price, hi, lo, eq) ==
    LET sl == stop_level(direction, hi, lo)
        size_diff == IF direction = "long" THEN fill_price * Scale - sl
                     ELSE sl - fill_price * Scale
        abs_diff == IF size_diff < 0 THEN 0 - size_diff ELSE size_diff
    IN  IF abs_diff < Scale /\ abs_diff * (EpsilonInverse \div Scale) < 1
        THEN [placed |-> FALSE]
        ELSE [placed |-> TRUE,
              size |-> order_size(eq * risk_per_trade, abs_diff),
              q_num |-> eq * risk_per_trade, q_den |-> abs_diff,
              sl |-> sl, tp |-> desired_tp(direction, fill_price)]

\* the cooldown gate: "if self.trade_blocked_until and current_time < ..."
\* is_blocked with the comparison reversed: the variant C1 must exclude
is_blocked_reversed(current_time, tbu) == tbu # None /\ current_time > tbu

is_blocked(current_time, tbu) == tbu # None /\ current_time < tbu

\* next with the undefined-band guard ahead of the pending attachment (the
\* order of the first definition of next, which has no attachment step): the
\* variant C16 must exclude
next_bar_guard_first(current_time, price, eq, hi, lo, tr, psl, ptp, cw, tbu) ==
    LET a == set_sl_tp_for_new_position(tr, psl, ptp)
        s0 == [trade |-> a.trade, pending_sl |-> a.pending_sl,
               pending_tp |-> a.pending_tp, current_week |-> cw,
               trade_blocked_until |-> tbu, order |-> NoOrder,
               close_order |-> FALSE, error |-> FALSE,
               did |-> [DidNothing EXCEPT !.attached = a.attached]]
        s1 == IF should_update_weekly_levels(current_time, cw)
              THEN [s0 EXCEPT
                      !.close_order = (a.trade.dir # "flat"),
                      !.current_week = isocalendar_week(current_time),
                      !.trade_blocked_until =
                          current_time + CooldownHours * BarsPerHour,
                      !.did.rollover = TRUE]
              ELSE s0
        u == update_trailing_tp(s1.trade, price)
        direction == check_breakouts(price, hi, lo)
        p == place_breakout_trade(direction, price, hi, lo, eq)
    IN  IF IsNaN(hi) \/ IsNaN(lo)
        THEN [s0 EXCEPT !.trade = tr, !.pending_sl = psl, !.pending_tp = ptp,
                        !.did.attached = FALSE, !.did.skipped = TRUE]
        ELSE IF is_blocked(current_time, s1.trade_blocked_until)
             THEN [s1 EXCEPT !.did.blocked = TRUE]
        ELSE IF s1.trade.dir # "flat"
             THEN [s1 EXCEPT !.trade = u.trade, !.error = u.error,
                             !.did.trailed = u.trailed]
        ELSE IF direction = "none" \/ ~p.placed THEN s1
        ELSE [s1 EXCEPT
                !.order = [dir |-> direction, size_num |-> p.size.num,
                           size_den |-> p.size.den],
                !.pending_sl = p.sl,
                !.pending_tp = p.tp,
                !.did.entry = IF direction = "long" THEN "buy" ELSE "sell",
                !.did.size_num = p.size.num, !.did.size_den = p.size.den,
                !.did.q_num = p.q_num, !.did.q_den = p.q_den]

\* next (the second definition of the class, which replaces the first): the
\* state after the call for the bar at current_time with Close price, band
\* (hi, lo) and account equity eq.
next_bar(current_time, price, eq, hi, lo, tr, psl, ptp, cw, tbu) ==
    LET a == set_sl_tp_for_new_position(tr, psl, ptp)
        s0 == [trade |-> a.trade, pending_sl |-> a.pending_sl,
               pending_tp |-> a.pending_tp, current_week |-> cw,
               trade_blocked_until |-> tbu, order |-> NoOrder,
               close_order |-> FALSE, error |-> FALSE,
               did |-> [DidNothing EXCEPT !.attached = a.attached]]
        s1 == IF should_update_weekly_levels(current_time, cw)
              THEN [s0 EXCEPT
                      !.close_order = (a.trade.dir # "flat"),
                      !.current_week = isocalendar_week(current_time),
                      !.trade_blocked_until =
                          current_time + CooldownHours * BarsPerHour,
                      !.did.rollover = TRUE]
              ELSE s0
        u == update_trailing_tp(s1.trade, price)
        direction == check_breakouts(price, hi, lo)
        p == place_breakout_trade(direction, price, hi, lo, eq)
    IN  IF IsNaN(hi) \/ IsNaN(lo) THEN [s0 EXCEPT !.did.skipped = TRUE]
        ELSE IF is_blocked(current_time, s1.trade_blocked_until)
             THEN [s1 EXCEPT !.did.blocked = TRUE]
        ELSE IF s1.trade.dir # "flat"
             THEN [s1 EXCEPT !.trade = u.trade, !.error = u.error,
                             !.did.trailed = u.trailed]
        ELSE IF direction = "none" \/ ~p.placed THEN s1
        ELSE [s1 EXCEPT
                !.order = [dir |-> direction, size_num |-> p.size.num,
                           size_den |-> p.size.den],
                !.pending_sl = p.sl,
                !.pending_tp = p.tp,
                !.did.entry = IF direction = "long" THEN "buy" ELSE "sell",
                !.did.size_num = p.size.num, !.did.size_den = p.size.den,
                !.did.q_num = p.q_num, !.did.q_den = p.q_den]

----------------------------------------------------------------------------
(* The backtesting engine (Backtest(..., trade_on_close=False,              *)
(* hedging=False).run()): for every bar, first the broker processes the    *)
(* queued orders on the new bar, then it calls the strategy's next().      *)

\* The broker on bar i + 1.  A queued close order closes the trade at the
\* open.  Otherwise a trade that has a stop or a target may be closed by it.
\* A queued market entry is filled at the bar's open, or cancelled (the
\* engine cancels an order the margin does not cover).
broker ==
    /\ pc = "broker"
    /\ i < Len(df)
    /\ i' = i + 1
    /\ \E hit \in BOOLEAN, fill \in BOOLEAN, open \in Opens :
          LET t1 == IF trade.dir = "flat" THEN trade
                    ELSE IF close_order THEN NoTrade
                    ELSE IF hit /\ (trade.sl # None \/ trade.tp # None)
                         THEN NoTrade
                    ELSE trade
          IN  /\ trade' =
                   IF /\ order.dir # "none" /\ fill /\ t1.dir = "flat"
                      /\ df[i + 1].Low <= open /\ open <= df[i + 1].High
                   THEN [dir |-> order.dir, entry_price |-> open,
                         sl |-> None, tp |-> None]
                   ELSE t1
              /\ period_log' =
                   IF trade.dir # "flat" /\ ~close_order /\ t1.dir = "flat"
                   THEN [period_log EXCEPT !.closes = logged(@)]
                   ELSE period_log
    /\ order' = NoOrder
    /\ close_order' = FALSE
    /\ pc' = "next"
    /\ UNCHANGED <<df, df_levels, psy_hi, psy_lo, Close, current_week,
                   trade_blocked_until, pending_sl, pending_tp, did, rollovers>>

\* The engine calls next() for the bar i; the bar's Close lies within its
\* range.
next ==
    /\ pc = "next"
    /\ \E c \in Closes, eq \in Equities :
          /\ df[i].Low <= c /\ c <= df[i].High
          /\ \E r \in {next_bar(df[i].t, c, eq, psy_hi[i], psy_lo[i], trade,
                                pending_sl, pending_tp, current_week,
                                trade_blocked_until)} :
                /\ Close' = c
                /\ trade' = r.trade
                /\ pending_sl' = r.pending_sl
                /\ pending_tp' = r.pending_tp
                /\ current_week' = r.current_week
                /\ trade_blocked_until' = r.trade_blocked_until
                /\ order' = r.order
                /\ close_order' = r.close_order
                /\ did' = r.did
                /\ rollovers' = IF r.did.rollover
                                THEN Append(rollovers, df[i].t) ELSE rollovers
                /\ period_log' =
                     IF r.did.rollover THEN NoLog
                     ELSE IF r.did.entry # "none"
                          THEN [period_log EXCEPT !.entries = logged(@)]
                     ELSE period_log
                /\ pc' = IF r.error THEN "error" ELSE "broker"
    /\ UNCHANGED <<df, df_levels, psy_hi, psy_lo, i>>

\* the data is exhausted
finish ==
    /\ pc = "broker"
    /\ i = Len(df)
    /\ pc' = "done"
    /\ UNCHANGED <<df, df_levels, psy_hi, psy_lo, i, Close, current_week,
                   trade_blocked_until, pending_sl, pending_tp, trade, order,
                   close_order, did, rollovers, period_log>>

\* Inputs of the strategy runs: the data around the first anchor alone, in one
\* piece, the data around the first and the last anchor with one of the
\* gaps between them, and the data with an outage from the first anchor on.
StratFirsts == {BarAt(A0 - 2), BarAt(A0) + 1}
StratLasts == {BarAt(A0), BarAt(A0 + 8)}
StratSpikes == {NoHour, ALast + 5}

\* An outage from the first anchor on: the data resumes OutageEnd hours before
\* the last anchor and ends with the last anchor's bar.
OutageEnd == 8
OutageInput ==
    MakeBars(BarAt(A0 - 2), BarAt(ALast), BarAt(A0), BarAt(ALast - OutageEnd),
             NoHour, NoHour, NoHour)

StratInputs ==
    { MakeBars(first, last, 0, 0, NoHour, NoHour, NoHour) :
        first \in StratFirsts, last \in StratLasts }
    \cup
    { OutageInput }
    \cup
    { MakeBars(first, BarAt(ALast + 9), g[1], g[2], NoHour, spike, NoHour) :
        first \in StratFirsts, g \in Gaps \ {<<0, 0>>}, spike \in StratSpikes }

Init == \E bars \in StratInputs \ {<<>>} : Fresh(bars)

Next == init_levels \/ init_indicators \/ broker \/ next \/ finish

Spec == Init /\ [][Next]_vars

----------------------------------------------------------------------------
(* A run over one unbroken series that spans the last two anchors.  The bars *)
(* between the earlier anchor's window and the approach to the last anchor   *)
(* do not move (High = Low = the base high), so that no breakout occurs on   *)
(* them; the last window holds a spike, so that the two Periods have         *)
(* different bands.                                                          *)

\* the anchor one week before the last one
APrev == AnchorAt(NumWeeks - 2)

\* bars with every bar of the hours [from, to) flat at the base high
Quiet(bars, from, to) ==
    [k \in 1..Len(bars) |->
        IF HourOf(bars[k].t) >= from /\ HourOf(bars[k].t) < to
        THEN [t |-> bars[k].t, High |-> BaseHigh, Low |-> BaseHigh]
        ELSE bars[k]]

QuietWeek(first) ==
    CHOOSE r \in { Quiet(bars, APrev + 9, ALast - 2) :
                     bars \in {MakeBars(first, BarAt(ALast + 7), 0, 0,
                                        NoHour, ALast + 5, NoHour)} } : TRUE

\* the week from two hours before its first anchor, and a short series that
\* begins half-way through the hour of its anchor
WeekInputs ==
    { QuietWeek(BarAt(APrev - 2)),
      MakeBars(BarAt(APrev) + 1, BarAt(APrev + 8), 0, 0, NoHour, NoHour, NoHour) }

InitWeek == \E bars \in WeekInputs : Fresh(bars)

SpecWeek == InitWeek /\ [][Next]_vars

----------------------------------------------------------------------------
(* A caller that hands the strategy a series that is not in time order: the *)
(* one-piece series around the first anchor with two neighbouring bars of   *)
(* one hour exchanged.  (The hourly frame of init() is the same as for the  *)
(* ordered series: the first and last bars stay in place, and the hourly    *)
(* aggregates do not depend on the order within an hour.)                   *)

\* bars with the bars at positions k and k + 1 exchanged
Swap(bars, k) ==
    [n \in 1..Len(bars) |->
        IF n = k THEN bars[k + 1] ELSE IF n = k + 1 THEN bars[k] ELSE bars[n]]

UnsortedInputs ==
    { Swap(bars, k) :
        bars \in {MakeBars(BarAt(A0 - 2), BarAt(A0 + 8), 0, 0, NoHour, NoHour, NoHour)},
        k \in {BarAt(A0 + 6) - BarAt(A0 - 2) + 1, BarAt(A0 + 7) - BarAt(A0 - 2) + 1} }

InitUnsorted == \E bars \in UnsortedInputs : Fresh(bars)

SpecUnsorted == InitUnsorted /\ [][Next]_vars

----------------------------------------------------------------------------
(* One call of next() on its own: the strategy and the engine in any state  *)
(* of the bounded sets below when the engine calls next() for one bar.  A   *)
(* price of 0 stands for prices too small for the epsilon test of           *)
(* place_breakout_trade to tell the entry from its stop.                    *)

CallTimes == {BarAt(A0), BarAt(A0) + 1, BarAt(A0 + CooldownHours)}
CallRanges == {<<BaseHigh, BaseLow>>, <<WideHigh, WideLow>>, <<0, 0>>}
CallBands == {<<NaN, NaN>>, <<BaseHigh, BaseLow>>, <<0, 0>>}
CallTrades ==
    {NoTrade}
    \cup { [dir |-> d, entry_price |-> BaseHigh, sl |-> None, tp |-> None] :
             d \in {"long", "short"} }
    \cup { [dir |-> "long", entry_price |-> BaseLow,
            sl |-> stop_level("long", BaseHigh, BaseLow),
            tp |-> desired_tp("long", BaseLow)],
           [dir |-> "short", entry_price |-> BaseHigh,
            sl |-> stop_level("short", BaseHigh, BaseLow),
            tp |-> desired_tp("short", BaseHigh)] }
CallPendings ==
    { <<None, None>>,
      <<stop_level("long", BaseHigh, BaseLow), desired_tp("long", BaseHigh)>>,
      <<stop_level("short", BaseHigh, BaseLow), desired_tp("short", BaseLow)>> }
CallWeeks == {None, FirstWeek, FirstWeek + 1}
CallDeadlines == {None, BarAt(A0), BarAt(A0 + CooldownHours)}

InitCall ==
    \E t \in CallTimes, range \in CallRanges, band \in CallBands,
       tr \in CallTrades, pending \in CallPendings, cw \in CallWeeks,
       tbu \in CallDeadlines :
        /\ pc = "next"
        /\ df = <<[t |-> t, High |-> range[1], Low |-> range[2]]>>
        /\ df_levels = <<>>
        /\ psy_hi = <<band[1]>>
        /\ psy_lo = <<band[2]>>
        /\ i = 1
        /\ Close = None
        /\ current_week = cw
        /\ trade_blocked_until = tbu
        /\ pending_sl = pending[1]
        /\ pending_tp = pending[2]
        /\ trade = tr
        /\ order = NoOrder
        /\ close_order = FALSE
        /\ did = DidNothing
        /\ rollovers = <<>>
        /\ period_log = NoLog

NextCall == next \/ finish

SpecCall == InitCall /\ [][NextCall]_vars

----------------------------------------------------------------------------
(* The band calculator on its own: every generated series, then init().    *)

BandInputs ==
    { MakeBars(first, last, g[1], g[2], hole, spike, dip) :
        first \in BandFirsts, last \in BandLasts, g \in BandGaps,
        hole \in BandHoles, spike \in BandSpikes, dip \in BandDips }

InitBands == \E bars \in BandInputs \ {<<>>} : Fresh(bars)

NextBands == init_levels \/ init_indicators

SpecBands == InitBands /\ [][NextBands]_vars

----------------------------------------------------------------------------
(* Claims about the band calculator *)

\* the rows of a frame whose index entry is a session start (Saturday 22:00)
AnchorRows(frame) ==
    {n \in 1..Len(frame) :
        weekday_h(frame[n].t) = AnchorWeekday /\ hour_h(frame[n].t) = AnchorHour}

\* the rows of the defining window [a - 1h, a + 6h) of the anchor a that hold
\* price data
WindowData(frame, a) ==
    {m \in 1..Len(frame) :
        /\ frame[m].t >= a - 1 /\ frame[m].t < a + HoursAfter
        /\ ~IsNaN(frame[m].High) /\ ~IsNaN(frame[m].Low)}

\* C4: every band value assigned by calc_psy_levels has psy_hi >= psy_lo on
\* every row where both are defined (every generated bar has High >= Low).
C4_BandHighNotBelowLow ==
    pc = "init2" =>
        \A n \in 1..Len(df_levels) :
            (~IsNaN(df_levels[n].psy_hi) /\ ~IsNaN(df_levels[n].psy_lo))
                => df_levels[n].psy_hi >= df_levels[n].psy_lo

\* C4 witness: a band was assigned, and its high lies above its low.
C4_Witness ==
    /\ pc = "init2"
    /\ \E n \in 1..Len(df_levels) :
          /\ ~IsNaN(df_levels[n].psy_hi) /\ ~IsNaN(df_levels[n].psy_lo)
          /\ df_levels[n].psy_hi > df_levels[n].psy_lo

\* C6: the band of every anchor whose defining window holds price data is the
\* maximum High and the minimum Low of the hourly bars of [a - 1h, a + 6h).
\* (Read on the anchor's own row, which calc_psy_levels assigns unless it is
\* the last row of the frame.)
C6_BandIsWindowExtremes ==
    pc = "init2" =>
        \A n \in AnchorRows(df_levels) :
            (n < Len(df_levels) /\ WindowData(df_levels, df_levels[n].t) # {}) =>
                /\ df_levels[n].psy_hi =
                     SetMax({df_levels[m].High : m \in WindowData(df_levels, df_levels[n].t)})
                /\ df_levels[n].psy_lo =
                     SetMin({df_levels[m].Low : m \in WindowData(df_levels, df_levels[n].t)})

\* C7: the band computed for the last anchor is assigned to every row from the
\* last anchor up to and including the final row of the frame.
C7_LastPeriodReachesEnd ==
    (pc = "init2" /\ AnchorRows(df_levels) # {}) =>
        \E n \in {SetMax(AnchorRows(df_levels))} :
        \E hs \in {highs(df_levels, df_levels[n].t)} :
        \E ls \in {lows(df_levels, df_levels[n].t)} :
            \A m \in n..Len(df_levels) :
                /\ df_levels[m].psy_hi = band_hi(hs)
                /\ df_levels[m].psy_lo = band_lo(ls)

\* C5: the per-bar band series is a step function of the anchors: a bar in
\* [anchor_i, anchor_i+1) carries the band computed for anchor_i, and a bar
\* before the first anchor carries no band value.
C5_StepFunction ==
    (pc = "broker" /\ i = 0) =>
        \E hourly_data \in {resample_to_hourly(df)} :
        \E frame \in {calc_psy_levels(hourly_data)} :
        \E anchors \in {AnchorRows(frame)} :
            \A k \in 1..Len(df) :
                \E prior \in {{n \in anchors : BarAt(frame[n].t) <= df[k].t}} :
                    IF prior = {}
                    THEN IsNaN(psy_hi[k]) /\ IsNaN(psy_lo[k])
                    ELSE \E n \in {SetMax(prior)} :
                            n # SetMax(anchors) =>
                                /\ psy_hi[k] = band_hi(highs(frame, frame[n].t))
                                /\ psy_lo[k] = band_lo(lows(frame, frame[n].t))

----------------------------------------------------------------------------
(* Claims about the strategy *)

\* next() has returned (or raised) for the bar i: did, Close and order are
\* those of that call
Processed == pc \in {"broker", "done", "error"} /\ i >= 1

\* the breakout conditions of the bar i, taken from the band shown on it
BuyBreakout == Close * Scale >= psy_hi[i] * (Scale + entry_offset)
SellBreakout == Close * Scale <= psy_lo[i] * (Scale - entry_offset)

\* C1: on a bar whose timestamp is strictly before the cooldown deadline the
\* strategy issues no entry, whatever the close price.
C1_NoEntryInCooldown ==
    (Processed /\ trade_blocked_until # None /\ df[i].t < trade_blocked_until)
        => (did.entry = "none" /\ order.dir = "none")

\* C1 witness: a bar inside the cooldown, with a defined band, no position and
\* a close beyond a breakout level.
C1_Witness ==
    /\ Processed
    /\ trade_blocked_until # None /\ df[i].t < trade_blocked_until
    /\ ~IsNaN(psy_hi[i]) /\ ~IsNaN(psy_lo[i])
    /\ trade.dir = "flat"
    /\ (BuyBreakout \/ SellBreakout)

\* a series without missing bars
IsContiguous(bars) == \A k \in 1..(Len(bars) - 1) : bars[k + 1].t = bars[k].t + 1

\* a bar timestamp that matches the anchor convention (Saturday 22:00)
IsAnchorBar(t) ==
    weekday(t) = AnchorWeekday /\ hour(t) = AnchorHour /\ minute_is_zero(t)

\* C2: at the end of a run over a contiguous series, the rollover has fired
\* exactly once on every anchor bar of the data.
C2_RolloverOncePerAnchor ==
    (pc = "done" /\ IsContiguous(df)) =>
        \A k \in 1..Len(df) :
            IsAnchorBar(df[k].t) =>
                Cardinality({j \in 1..Len(rollovers) : rollovers[j] = df[k].t}) = 1

\* C3: while one position stays open, a call of next() never moves its
\* attached target backward: up or unchanged for a long, down or unchanged for
\* a short.
C3_TargetNeverMovesBack ==
    [][ (pc = "next" /\ trade.dir # "flat" /\ trade'.dir = trade.dir
            /\ trade.tp # None)
          => /\ trade'.tp # None
             /\ trade.dir = "long" => trade'.tp >= trade.tp
             /\ trade.dir = "short" => trade'.tp <= trade.tp ]_vars

\* C3 witness: update_trailing_tp has just moved the target of an open position.
C3_Witness == Processed /\ trade.dir # "flat" /\ trade.tp # None /\ did.trailed

\* the hour of the anchor whose Period holds the bar time t: the last Saturday
\* 22:00 of the hourly index that is not after t (NoHour when there is none)
PeriodAnchor(t) ==
    LET ks == {k \in 0..NumWeeks :
                 AnchorAt(k) >= HourOf(df[1].t) /\ BarAt(AnchorAt(k)) <= t}
    IN  IF ks = {} THEN NoHour ELSE AnchorAt(SetMax(ks))

\* no bar of the data lies in the defining window [a - 1h, a + 6h)
WindowEmpty(a) ==
    \A k \in 1..Len(df) :
        ~(HourOf(df[k].t) >= a - 1 /\ HourOf(df[k].t) < a + HoursAfter)

\* C8: a bar of a Period whose defining window holds no price data carries no
\* band value, and the strategy issues no entry on it.
C8_EmptyWindowNoBandNoEntry ==
    (Processed /\ PeriodAnchor(df[i].t) # NoHour
        /\ WindowEmpty(PeriodAnchor(df[i].t)))
        => (IsNaN(psy_hi[i]) /\ IsNaN(psy_lo[i]) /\ did.entry = "none")

\* C9: the target attached on the bar after the entry decision is the realized
\* entry price times (1 + take_profit) for a long, (1 - take_profit) for a
\* short.
C9_TargetFromFillPrice ==
    (Processed /\ did.attached /\ trade.dir # "flat") =>
        trade.tp = IF trade.dir = "long"
                   THEN trade.entry_price * (Scale + take_profit)
                   ELSE trade.entry_price * (Scale - take_profit)

\* the risk distance |close - stop| of the entry just issued, as a level
RiskDistance ==
    IF pending_sl > Close * Scale THEN pending_sl - Close * Scale
    ELSE Close * Scale - pending_sl

\* C10 as stated: the quotient (equity * risk_per_trade) / risk_distance is
\* submitted floored when it is >= 1, so that size * risk_distance never
\* exceeds equity * risk_per_trade, and unrounded below 1.
C10_SizeFloored ==
    (Processed /\ did.entry # "none") =>
        /\ did.q_den = RiskDistance
        /\ \E eq \in Equities : did.q_num = eq * risk_per_trade
        /\ IF did.q_num >= did.q_den
           THEN /\ did.size_den = 1
                /\ did.size_num = did.q_num \div did.q_den
                /\ did.size_num * did.q_den <= did.q_num
           ELSE did.size_num * did.q_den = did.q_num * did.size_den

\* C10 amended: when the quotient is >= 1 the submitted size is the whole
\* number nearest to it (the even one of two equally near), and unrounded
\* below 1.
C10_SizeRounded ==
    (Processed /\ did.entry # "none") =>
        /\ did.q_den = RiskDistance
        /\ \E eq \in Equities : did.q_num = eq * risk_per_trade
        /\ IF did.q_num >= did.q_den
           THEN /\ did.size_den = 1
                /\ 2 * (did.size_num * did.q_den - did.q_num) <= did.q_den
                /\ 2 * (did.q_num - did.size_num * did.q_den) <= did.q_den
                /\ (2 * (did.size_num * did.q_den - did.q_num) = did.q_den
                    \/ 2 * (did.q_num - did.size_num * did.q_den) = did.q_den)
                      => did.size_num % 2 = 0
           ELSE did.size_num * did.q_den = did.q_num * did.size_den

\* C10 witness: an entry whose size was rounded up, above the quotient.
C10_Witness ==
    /\ Processed /\ did.entry # "none"
    /\ did.q_num >= did.q_den
    /\ did.size_num * did.q_den > did.q_num

\* the bar i allows an entry: no position, a defined band, the cooldown over
MayEnter ==
    /\ trade.dir = "flat"
    /\ ~IsNaN(psy_hi[i]) /\ ~IsNaN(psy_lo[i])
    /\ ~(trade_blocked_until # None /\ df[i].t < trade_blocked_until)

\* C11: on every bar at most one entry is issued, and only with no position
\* open, a defined band and the cooldown over: a buy if the close is at or
\* above the buy breakout level, otherwise a sell if it is at or below the
\* sell breakout level, otherwise none.
C11_EntryRule ==
    Processed =>
        /\ did.entry = IF MayEnter /\ BuyBreakout THEN "buy"
                       ELSE IF MayEnter /\ SellBreakout THEN "sell"
                       ELSE "none"
        /\ order.dir = IF did.entry = "buy" THEN "long"
                       ELSE IF did.entry = "sell" THEN "short"
                       ELSE "none"
        /\ trade.dir # "flat" => order.dir = "none"

\* C11 witness: a buy entry was issued on a bar that allows one.
C11_Witness == Processed /\ MayEnter /\ BuyBreakout /\ did.entry = "buy"

\* entries issued since the last rollover, before the bar i was processed
EntriesBefore ==
    IF did.entry # "none" /\ period_log.entries > 0
    THEN period_log.entries - 1 ELSE period_log.entries

\* C12: within one Period, after a first position opened by a breakout has
\* been closed by its stop or target, a later bar that allows an entry and
\* satisfies a breakout condition issues a new entry: earlier entries of the
\* Period do not suppress it.
C12_LaterBreakoutStillEnters ==
    (Processed /\ ~did.rollover /\ EntriesBefore >= 1 /\ period_log.closes >= 1
        /\ MayEnter /\ (BuyBreakout \/ SellBreakout))
        => (did.entry # "none" /\ order.dir # "none")

\* C12 witness: a second entry of the first Period, issued after a position
\* of that Period was closed by its stop or target and with no rollover in
\* between.
C12_Witness ==
    /\ Processed /\ ~did.rollover
    /\ df[i].t < BarAt(ALast)
    /\ period_log.entries >= 2 /\ period_log.closes >= 1
    /\ did.entry # "none"

\* the bar i is older than a bar the strategy has already evaluated
OutOfOrder == i >= 2 /\ \E k \in 1..(i - 1) : df[k].t > df[i].t

\* C13: a bar older than the last bar evaluated makes the strategy signal a
\* fatal error, and is not processed as a normal bar: no rollover, no entry,
\* no target change.
C13_OutOfOrderIsFatal ==
    (Processed /\ OutOfOrder) =>
        /\ pc = "error"
        /\ did.entry = "none" /\ order.dir = "none"
        /\ ~did.rollover /\ ~did.trailed

\* C14: on every bar where a rollover fires the strategy issues a close
\* instruction for the open position if there is one, records the bar's week
\* as the current Period and sets the cooldown deadline to the bar's timestamp
\* + 6 hours; so on an anchor bar every open position gets a close
\* instruction.
C14_RolloverClosesAndResets ==
    Processed =>
        /\ did.rollover =>
              /\ close_order = (trade.dir # "flat")
              /\ current_week = isocalendar_week(df[i].t)
              /\ trade_blocked_until = df[i].t + CooldownHours * BarsPerHour
        /\ (IsAnchorBar(df[i].t) /\ trade.dir # "flat") => close_order

\* what C14 says of the bars on which the rollover does fire
RolloverEffect ==
    (Processed /\ did.rollover) =>
        /\ close_order = (trade.dir # "flat")
        /\ current_week = isocalendar_week(df[i].t)
        /\ trade_blocked_until = df[i].t + CooldownHours * BarsPerHour

\* C15: an entry issued on a bar with close p and band (high, low) stores the
\* stop low * (1 - sl_offset) and the target p * (1 + take_profit) for a long,
\* the stop high * (1 + sl_offset) and the target p * (1 - take_profit) for a
\* short; band (50000, 49000) with close 50010 gives a long entry with stop
\* 48995.1 and target 50510.1.
C15_StoredStopAndTarget ==
    /\ (Processed /\ did.entry = "buy") =>
          /\ pending_sl = psy_lo[i] * (Scale - sl_offset)
          /\ pending_tp = Close * (Scale + take_profit)
    /\ (Processed /\ did.entry = "sell") =>
          /\ pending_sl = psy_hi[i] * (Scale + sl_offset)
          /\ pending_tp = Close * (Scale - take_profit)
    /\ check_breakouts(50010, 50000, 49000) = "long"
    /\ stop_level("long", 50000, 49000) = 489951000
    /\ desired_tp("long", 50010) = 505101000

\* C15 witness: a sell entry with its stop and target stored.
C15_Witness ==
    /\ Processed /\ did.entry = "sell"
    /\ pending_sl = psy_hi[i] * (Scale + sl_offset)
    /\ pending_tp = Close * (Scale - take_profit)

\* C16: one call of next() runs its steps in the order pending attachment,
\* undefined-band guard, rollover detection, cooldown gate, trailing
\* management, breakout detection.  The attachment happens on every bar, also
\* on a bar with an undefined band and on a bar inside the cooldown; a bar
\* with an undefined band sees no rollover; the rollover is evaluated before
\* the cooldown gate, so the bar of a rollover is blocked by the new deadline;
\* a blocked bar sees no trailing and no entry; a bar with a position open
\* sees no entry.
C16_StepOrder ==
    [][ pc = "next" =>
          /\ (trade.dir # "flat" /\ (pending_sl # None \/ pending_tp # None))
                => /\ did'.attached
                   /\ pending_sl' = None /\ pending_tp' = None
                   /\ trade'.sl = IF trade.sl = None /\ pending_sl # None
                                  THEN pending_sl ELSE trade.sl
          /\ (IsNaN(psy_hi[i]) \/ IsNaN(psy_lo[i]))
                => /\ did'.skipped /\ ~did'.rollover /\ ~did'.blocked
                   /\ current_week' = current_week
                   /\ trade_blocked_until' = trade_blocked_until
                   /\ ~close_order' /\ did'.entry = "none" /\ ~did'.trailed
          /\ (~IsNaN(psy_hi[i]) /\ ~IsNaN(psy_lo[i]) /\ current_week = None)
                => did'.rollover /\ did'.blocked
          /\ did'.rollover => did'.blocked
          /\ did'.blocked => (~did'.trailed /\ did'.entry = "none")
          /\ trade.dir # "flat" => (did'.entry = "none" /\ order'.dir = "none")
      ]_vars

\* C16 witness: a pending stop/target was attached on a bar whose band is
\* undefined.
C16_Witness == Processed /\ did.attached /\ did.skipped

\* a pending stop/target was attached on the bar of a rollover, inside the
\* cooldown the rollover started
AttachedInCooldown == Processed /\ did.attached /\ did.rollover /\ did.blocked

\* the direction of the position an entry opens
EntryDir(entry) == IF entry = "buy" THEN "long"
                   ELSE IF entry = "sell" THEN "short" ELSE "flat"

\* C17: if an entry was decided on the previous bar and a position is open
\* when next() is called, the call leaves the position with a stop and a
\* target and the pending slot empty; after every call with a position open
\* the pending slot is empty; and a call attaches pending values only to the
\* position opened by the entry that stored them, the entry of the previous
\* bar.
C17_TwoPhaseEntry ==
    [][ pc = "next" =>
          /\ (did.entry # "none" /\ trade.dir # "flat")
                => /\ trade'.sl # None /\ trade'.tp # None
                   /\ pending_sl' = None /\ pending_tp' = None
          /\ trade'.dir # "flat" => (pending_sl' = None /\ pending_tp' = None)
          /\ did'.attached
                => /\ did.entry # "none"
                   /\ trade.dir = EntryDir(did.entry)
                   /\ trade'.sl = pending_sl
      ]_vars

\* C17 witness: the bar after an entry, with the position open, its stop and
\* target attached and the pending slot empty.
C17_Witness ==
    /\ Processed /\ did.attached /\ ~did.trailed
    /\ trade.dir # "flat" /\ trade.sl # None /\ trade.tp # None
    /\ pending_sl = None /\ pending_tp = None

\* the breakout the close price c gives on the bar i, and its risk distance
\* |c - stop| as a level
BreakoutOf(c) ==
    IF c * Scale >= psy_hi[i] * (Scale + entry_offset) THEN "long"
    ELSE IF c * Scale <= psy_lo[i] * (Scale - entry_offset) THEN "short"
    ELSE "none"
RiskDistanceOf(c) ==
    LET stop == IF BreakoutOf(c) = "long" THEN psy_lo[i] * (Scale - sl_offset)
                ELSE psy_hi[i] * (Scale + sl_offset)
    IN  IF stop > c * Scale THEN stop - c * Scale ELSE c * Scale - stop

\* a level distance below 1e-8 of a price unit
BelowEpsilon(d) == d < Scale /\ d * (EpsilonInverse \div Scale) < 1

\* C18: when a call of next() reaches the breakout detection (no position, a
\* defined band, no rollover, cooldown over), a breakout condition holds and
\* the risk distance is below the epsilon, the entry is discarded: no order is
\* submitted, no error is raised, and the pending stop/target, the current
\* Period and the cooldown deadline are left as they were.
C18_DegenerateEntryDiscarded ==
    [][ ( /\ pc = "next"
          /\ trade.dir = "flat"
          /\ ~IsNaN(psy_hi[i]) /\ ~IsNaN(psy_lo[i])
          /\ ~did'.rollover /\ ~did'.blocked
          /\ BreakoutOf(Close') # "none"
          /\ BelowEpsilon(RiskDistanceOf(Close')) )
        => /\ order' = NoOrder /\ did'.entry = "none"
           /\ pc' # "error"
           /\ pending_sl' = pending_sl /\ pending_tp' = pending_tp
           /\ current_week' = current_week
           /\ trade_blocked_until' = trade_blocked_until
      ]_vars

\* C18 witness: a bar that allows an entry and whose close satisfies a
\* breakout condition at a risk distance below the epsilon; no entry was
\* issued and the pending values stored earlier are still there.
C18_Witness ==
    /\ Processed /\ MayEnter /\ ~did.rollover
    /\ BreakoutOf(Close) # "none" /\ BelowEpsilon(RiskDistanceOf(Close))
    /\ did.entry = "none" /\ order = NoOrder
    /\ pending_sl # None /\ pending_tp # None

\* C19: when some but not all of the 7 hourly sub-intervals of an anchor's
\* defining window hold data, the band is defined, with the maximum High and
\* the minimum Low of the sub-intervals that hold data, whichever of them are
\* the missing ones.  (Read on the anchor's own row, for an anchor that is not
\* the last row of the frame.)
C19_MissingHoursSkipped ==
    pc = "init2" =>
        \A n \in AnchorRows(df_levels) :
            \E present \in {WindowData(df_levels, df_levels[n].t)} :
                (/\ n < Len(df_levels)
                 /\ present # {}
                 /\ Cardinality(present) < HoursAfter + 1) =>
                    /\ ~IsNaN(df_levels[n].psy_hi)
                    /\ ~IsNaN(df_levels[n].psy_lo)
                    /\ \A m \in present :
                          /\ df_levels[n].psy_hi >= df_levels[m].High
                          /\ df_levels[n].psy_lo <= df_levels[m].Low
                    /\ \E m \in present : df_levels[n].psy_hi = df_levels[m].High
                    /\ \E m \in present : df_levels[n].psy_lo = df_levels[m].Low

\* what C19 says when the hour before the anchor is not an empty row of the
\* hourly frame
MissingLaterHoursSkipped ==
    pc = "init2" =>
        \A n \in AnchorRows(df_levels) :
            \E present \in {WindowData(df_levels, df_levels[n].t)} :
                (/\ n < Len(df_levels)
                 /\ present # {}
                 /\ Cardinality(present) < HoursAfter + 1
                 /\ (n = 1 \/ n - 1 \in present)) =>
                    /\ ~IsNaN(df_levels[n].psy_hi)
                    /\ ~IsNaN(df_levels[n].psy_lo)
                    /\ \A m \in present :
                          /\ df_levels[n].psy_hi >= df_levels[m].High
                          /\ df_levels[n].psy_lo <= df_levels[m].Low

\* C20: a rollover fires only on a bar whose timestamp matches the anchor
\* convention (Saturday, 22:00, minute 0), never on another bar.
C20_RolloverOnlyOnAnchor ==
    \A j \in 1..Len(rollovers) : IsAnchorBar(rollovers[j])

\* what holds of the bars other than anchor bars: a rollover fires on one only
\* as the first rollover of the run
LaterRolloversOnAnchor ==
    \A j \in 2..Len(rollovers) : IsAnchorBar(rollovers[j])

----------------------------------------------------------------------------
(* Claims about look-ahead and about the target of an open position *)

\* the bars of the defining window [a - 1h, a + 6h) of the anchor a
WindowBars(a) ==
    {k \in 1..Len(df) : HourOf(df[k].t) >= a - 1 /\ HourOf(df[k].t) < a + HoursAfter}

\* C21: on a contiguous series every entry is issued on a bar at or after
\* anchor + 6h of the Period whose band the bar shows: the bar lies in a
\* Period, the band shown on it is made of the extremes of that Period's
\* window [anchor - 1h, anchor + 6h), and every bar of that window has ended
\* by the time the entry bar starts.
C21_NoLookAhead ==
    (Processed /\ IsContiguous(df) /\ did.entry # "none") =>
        \E a \in {PeriodAnchor(df[i].t)} :
            /\ a # NoHour
            /\ df[i].t >= BarAt(a + HoursAfter)
            /\ psy_hi[i] = SetMax({df[k].High : k \in WindowBars(a)})
            /\ psy_lo[i] = SetMin({df[k].Low : k \in WindowBars(a)})
            /\ \A k \in WindowBars(a) : df[k].t < df[i].t

\* C21 witness: an entry in the last Period of a contiguous series that spans
\* two anchors, on a band that differs from the band of the first Period.
C21_Witness ==
    /\ Processed /\ IsContiguous(df) /\ did.entry # "none"
    /\ PeriodAnchor(df[i].t) = ALast
    /\ HourOf(df[1].t) <= APrev
    /\ psy_hi[i] = SpikeHigh
    /\ df[i].t >= BarAt(ALast + HoursAfter)

\* update_trailing_tp ran on the bar i: a position is open, the band is
\* defined and the cooldown gate let the bar through
TrailingRan ==
    Processed /\ trade.dir # "flat" /\ ~did.skipped /\ ~did.blocked

\* the profit threshold of update_trailing_tp is met on the bar i, so that the
\* new trailing target is compared with the target of the position
ThresholdMet ==
    \/ trade.dir = "long"
         /\ Close * Scale >= trade.entry_price * (Scale + take_profit)
    \/ trade.dir = "short"
         /\ Close * Scale <= trade.entry_price * (Scale - take_profit)

\* C22: whenever update_trailing_tp runs, the open position has a target
\* attached, and the comparison of the new trailing target with the target of
\* the position never meets None (no run ends in the TypeError).
C22_TargetPresentBeforeTrailing ==
    /\ pc # "error"
    /\ TrailingRan => trade.tp # None

\* C22 witness: update_trailing_tp runs and makes its comparison in the very
\* call of next() that attached the pending target to a newly filled position.
C22_Witness ==
    /\ TrailingRan /\ ThresholdMet
    /\ did.attached
    /\ trade.tp # None
    /\ pc # "error"

====
